---- MODULE Spec2Model ----
(***************************************************************************)
(* Cache-first restaurant finder (restaurant-finder): the PostgreSQL store *)
(* of RestaurantDB rows, the Redis cache of RestaurantCache documents, and *)
(* the operations of RestaurantService, OSMImporter.save_to_db and the     *)
(* FastAPI endpoints that read and write them.                             *)
(*                                                                         *)
(* Units.  Positions lie on one line and are measured in decimetres, so    *)
(* that the rounding of distance_meters to whole metres is visible.        *)
(* Ratings are in tenths of a star (42 = 4.2).  A radius is given in       *)
(* metres (radius_km * 1000).  Instants of the clock and ages are in       *)
(* hundredths of a second; a reported cache_age_seconds is in tenths.      *)
(***************************************************************************)
EXTENDS Integers, Sequences, FiniteSets, Bags, TLC

(* ------------------------------ bounds -------------------------------- *)
MaxProcs == 2
MaxRecords == 2
MaxDocs == 3
MaxBatch == 2

(* --------------------------- input domains ---------------------------- *)
Procs == 1..MaxProcs

NoCuisine == ""

\* Elements the ingestion source can deliver (already parsed): the external
\* id, the position, and the cuisine tag exactly as tagged in OpenStreetMap.
OsmCatalog ==
    { [osm_id |-> "osm_node_1", pos |-> 6,  cuisine |-> "italian"],
      [osm_id |-> "osm_node_2", pos |-> 14, cuisine |-> "Italian"] }

Cities == {"Roma", "Unknown"}

\* Query areas: centre (a position) and radius in metres.
Areas ==
    { [center |-> 0, radiusM |-> 1],
      [center |-> 0, radiusM |-> 3],
      [center |-> 5, radiusM |-> 1] }

\* Filter settings of a query: cuisine, min_rating, max_price.
Filters ==
    { [cuisine |-> NoCuisine, min_rating |-> 0,  max_price |-> 4],
      [cuisine |-> "Italian", min_rating |-> 0,  max_price |-> 4],
      [cuisine |-> NoCuisine, min_rating |-> 45, max_price |-> 4],
      [cuisine |-> NoCuisine, min_rating |-> 0,  max_price |-> 2] }

\* How find_nearby is called: through the endpoint (use_cache=True, with a
\* limit) or directly with use_cache=False.
Modes ==
    { [api |-> TRUE,  use_cache |-> TRUE,  limit |-> 1],
      [api |-> TRUE,  use_cache |-> TRUE,  limit |-> 1000],
      [api |-> FALSE, use_cache |-> FALSE, limit |-> 1000] }

\* Values an update of a row can set: (rating, price_range, is_active).
Profiles ==
    { [rating |-> 45, price_range |-> 3, is_active |-> TRUE],
      [rating |-> 42, price_range |-> 2, is_active |-> FALSE] }

\* Readings of datetime.now(), in hundredths of a second since the start:
\* at once, 40 ms, 100 ms, one hour, one hour and 40 ms.
Instants == {0, 4, 10, 360000, 360004}

(* --------------------------- pure functions --------------------------- *)
\* str.lower() on the cuisine strings of the model.
Lower(s) ==
    CASE s = "Italian" -> "italian"
      [] s = "Pizza"   -> "pizza"
      [] OTHER         -> s

Abs(x) == IF x < 0 THEN 0 - x ELSE x

\* Distance in decimetres between two positions (ST_Distance / GEORADIUS).
Dist(a, b) == Abs(a - b)

\* ST_DWithin(location, point, radius_km * 1000) and GEORADIUS ... radius km.
InRadius(pos, center, radiusM) == Dist(pos, center) <= radiusM * 10

\* round(distance_km * 1000, 0): Python rounds half to even.
RoundMeters(dm) ==
    LET q == dm \div 10
        r == dm % 10
    IN  IF r < 5 THEN q
        ELSE IF r > 5 THEN q + 1
        ELSE IF q % 2 = 0 THEN q ELSE q + 1

\* round(cache_age_seconds, 1): an age in hundredths of a second becomes
\* tenths of a second, a half going to the even neighbour.
RoundAge(cs) ==
    LET q == cs \div 10
        r == cs % 10
    IN  IF r < 5 THEN q
        ELSE IF r > 5 THEN q + 1
        ELSE IF q % 2 = 0 THEN q ELSE q + 1

\* All orders in which the elements of a finite set can be listed.
Perms(S) ==
    { f \in [1..Cardinality(S) -> S] : \A i, j \in 1..Cardinality(S) : f[i] = f[j] => i = j }

\* The elements of a bag, listed with their multiplicity, in every order.
BagSeqs(B) ==
    LET items == { <<e, k>> : e \in BagToSet(B), k \in 1..MaxDocs }
        live  == { it \in items : it[2] <= CopiesIn(it[1], B) }
    IN  { [i \in 1..Cardinality(live) |-> p[i][1]] : p \in Perms(live) }

\* Python's list slice s[:n].
Take(s, n) == IF n >= Len(s) THEN s ELSE SubSeq(s, 1, n)

\* list.sort(key=...): stable insertion of x after every element whose key
\* is not larger.
RECURSIVE InsertByKey(_, _)
InsertByKey(s, x) ==
    IF s = <<>> THEN <<x>>
    ELSE IF s[Len(s)].distance_meters <= x.distance_meters THEN Append(s, x)
    ELSE Append(InsertByKey(SubSeq(s, 1, Len(s) - 1), x), s[Len(s)])

RECURSIVE SortByDistance(_)
SortByDistance(s) ==
    IF s = <<>> THEN <<>>
    ELSE InsertByKey(SortByDistance(SubSeq(s, 1, Len(s) - 1)), s[Len(s)])

(* ------------------------------- state -------------------------------- *)
VARIABLES
    db,         \* PostgreSQL table restaurants: sequence of rows, id = index
    cache,      \* Redis: bag of RestaurantCache documents (one per insert)
    storeUp,    \* PostgreSQL reachable
    cacheUp,    \* Redis reachable
    pc,         \* per process: position inside the operation it runs
    op,         \* per process: the operation and its arguments
    buf,        \* per process: rows loaded by the operation's store query
    idx,        \* per process: number of rows already written to the cache
    ret,        \* per process: outcome of the operation
    now,        \* the reading of datetime.now()
    redis_client,   \* database._redis_client: <<>> (None) or <<client>>
    clients     \* the Redis clients created so far: "open" or "closed"

vars == <<db, cache, storeUp, cacheUp, pc, op, buf, idx, ret, now, redis_client, clients>>
stores == <<db, cache>>
env == <<storeUp, cacheUp, now, redis_client, clients>>

NoOp == [kind |-> "none"]
NoRet == [status |-> "none"]

\* Arguments of RestaurantService.find_nearby.
FindOps ==
    { [kind |-> "find", api |-> m.api, use_cache |-> m.use_cache, limit |-> m.limit,
       center |-> a.center, radiusM |-> a.radiusM, cuisine |-> f.cuisine,
       min_rating |-> f.min_rating, max_price |-> f.max_price] :
        m \in Modes, a \in Areas, f \in Filters }

\* The end of the valid coordinate range (latitude 90) on the model's line.
CoordLimit == 900

\* The argument checks of the endpoint's Query declarations: the centre
\* within the coordinate range, the radius greater than 0.
ValidArgs(o) == o.radiusM > 0 /\ Abs(o.center) <= CoordLimit

\* Calls with an argument out of range: through the endpoint with radius 0
\* or a centre beyond the range, and directly with radius_km = 0.
BadFindOps ==
    { [kind |-> "find", api |-> c.api, use_cache |-> c.api, limit |-> 1000,
       center |-> c.center, radiusM |-> c.radiusM, cuisine |-> NoCuisine,
       min_rating |-> 0, max_price |-> 4] :
        c \in { [api |-> TRUE,  center |-> 0,    radiusM |-> 0],
                [api |-> TRUE,  center |-> 1000, radiusM |-> 1],
                [api |-> FALSE, center |-> 0,    radiusM |-> 0] } }

\* A RestaurantDB row built by save_to_db from a parsed element: rating and
\* price_range take the column defaults, is_active is set to True.
NewRow(id, data, city) ==
    [id |-> id, osm_id |-> data.osm_id, pos |-> data.pos, city |-> city,
     cuisine |-> data.cuisine, price_range |-> 2, rating |-> 0,
     is_active |-> TRUE]

\* CacheEntry without the external id of the row.
CacheEntryNoOsmId(row) ==
    [db_id |-> row.id, osm_id |-> "", pos |-> row.pos,
     city |-> row.city, cuisine |-> row.cuisine,
     price_range |-> row.price_range, rating |-> row.rating,
     is_active |-> TRUE, cached_at |-> now]

\* CacheEntry leaving the rating at 0.
CacheEntryNoRating(row) ==
    [db_id |-> row.id, osm_id |-> row.osm_id, pos |-> row.pos,
     city |-> row.city, cuisine |-> row.cuisine,
     price_range |-> row.price_range, rating |-> 0,
     is_active |-> TRUE, cached_at |-> now]

\* The RestaurantCache document _cache_results builds from a row.  is_active
\* is not copied (the field keeps its default True) and cached_at takes its
\* default, the time of construction.
CacheEntry(row) ==
    [db_id |-> row.id, osm_id |-> row.osm_id, pos |-> row.pos,
     city |-> row.city, cuisine |-> row.cuisine,
     price_range |-> row.price_range, rating |-> row.rating,
     is_active |-> TRUE, cached_at |-> now]

\* CacheObj leaving the price_range at 2.
CacheObjNoPrice(row) ==
    [db_id |-> row.id, osm_id |-> row.osm_id, pos |-> row.pos,
     city |-> row.city, cuisine |-> row.cuisine,
     price_range |-> 2, rating |-> row.rating,
     is_active |-> TRUE, cached_at |-> now]

\* The unsaved RestaurantCache object _db_to_cache_format builds from a row.
CacheObj(row) ==
    [db_id |-> row.id, osm_id |-> row.osm_id, pos |-> row.pos,
     city |-> row.city, cuisine |-> row.cuisine,
     price_range |-> row.price_range, rating |-> row.rating,
     is_active |-> TRUE, cached_at |-> now]

\* RestaurantCache.cache_age_seconds, in hundredths of a second.
CacheAge(doc) == now - doc.cached_at

\* The default of is_stale's max_age_seconds.
MaxAgeSeconds == 3600

\* IsStale with an inclusive comparison.
IsStaleInclusive(doc, max_age_seconds) == CacheAge(doc) >= max_age_seconds * 100

\* RestaurantCache.is_stale(max_age_seconds).
IsStale(doc, max_age_seconds) == CacheAge(doc) > max_age_seconds * 100

\* CachePasses without the rating test.
CachePassesNoRating(doc, o) ==
    /\ ~(o.cuisine # NoCuisine /\ doc.cuisine # Lower(o.cuisine))
    /\ ~(doc.price_range > o.max_price)
    /\ doc.is_active

\* The filters find_nearby applies to a cached document.
CachePasses(doc, o) ==
    /\ ~(o.cuisine # NoCuisine /\ doc.cuisine # Lower(o.cuisine))
    /\ ~(doc.rating < o.min_rating)
    /\ ~(doc.price_range > o.max_price)
    /\ doc.is_active

\* The WHERE clause of find_nearby's PostGIS query.
StoreMatches(row, o) ==
    /\ InRadius(row.pos, o.center, o.radiusM)
    /\ row.is_active = TRUE
    /\ row.rating >= o.min_rating
    /\ row.price_range <= o.max_price
    /\ (o.cuisine # NoCuisine => row.cuisine = Lower(o.cuisine))

Rows(d) == { d[i] : i \in 1..Len(d) }

\* One element of the endpoint's response, as formatted at the present time.
Format(r) ==
    [id |-> r.doc.db_id, cuisine |-> r.doc.cuisine, rating |-> r.doc.rating,
     price_range |-> r.doc.price_range,
     distance_meters |-> RoundMeters(r.distance),
     cache_age_seconds |-> RoundAge(CacheAge(r.doc))]

\* find_nearby_restaurants after the service returned: truncate, format, sort.
Respond(results, limit) ==
    SortByDistance([i \in 1..Len(Take(results, limit)) |-> Format(Take(results, limit)[i])])

\* The response body of an endpoint call whose service call has returned.
Response(p) == Respond(ret[p].results, op[p].limit)

\* The application has started: the tables are empty, the startup handler
\* has created the Redis client.
Init ==
    /\ db = <<>>
    /\ cache = EmptyBag
    /\ storeUp = TRUE
    /\ cacheUp = TRUE
    /\ pc = [p \in Procs |-> "idle"]
    /\ op = [p \in Procs |-> NoOp]
    /\ buf = [p \in Procs |-> <<>>]
    /\ idx = [p \in Procs |-> 0]
    /\ ret = [p \in Procs |-> NoRet]
    /\ now = 0
    /\ redis_client = <<1>>
    /\ clients = <<"open">>

\* The operation of p ends with outcome r; its locals are gone.
Return(p, r) ==
    /\ pc' = [pc EXCEPT ![p] = "done"]
    /\ ret' = [ret EXCEPT ![p] = r]
    /\ buf' = [buf EXCEPT ![p] = <<>>]
    /\ idx' = [idx EXCEPT ![p] = 0]

\* An exception leaves the operation (the endpoints answer HTTP 500).
Raise(p, err) == Return(p, [status |-> "error", error |-> err, at |-> pc[p]])

(* ------------------ RestaurantService.find_nearby --------------------- *)
\* StartFind entering the cache attempt whatever use_cache is.
StartFindAlwaysCache(p, o) ==
    /\ pc[p] = "idle"
    /\ op' = [op EXCEPT ![p] = o]
    /\ IF o.api /\ ~ValidArgs(o)
       THEN /\ Raise(p, "InvalidArgument")
            /\ UNCHANGED <<stores, env>>
       ELSE /\ pc' = [pc EXCEPT ![p] = "cache"]
            /\ UNCHANGED <<stores, env, buf, idx, ret>>

\* A call arrives.  The endpoint rejects arguments out of range before its
\* handler runs; find_nearby itself checks nothing.
StartFind(p, o) ==
    /\ pc[p] = "idle"
    /\ op' = [op EXCEPT ![p] = o]
    /\ IF o.api /\ ~ValidArgs(o)
       THEN /\ Raise(p, "InvalidArgument")
            /\ UNCHANGED <<stores, env>>
       ELSE /\ pc' = [pc EXCEPT ![p] = IF o.use_cache THEN "cache" ELSE "store"]
            /\ UNCHANGED <<stores, env, buf, idx, ret>>

\* CacheResults without the radius of the geo query.
CacheResultsNoRadius(geo, o) ==
    LET hits == SelectSeq(geo, LAMBDA d : CachePasses(d, o))
    IN  [i \in 1..Len(hits) |-> [doc |-> hits[i], distance |-> Dist(hits[i].pos, o.center)]]

\* The documents the cache attempt keeps, for one order of the geo result.
CacheResults(geo, o) ==
    LET near == SelectSeq(geo, LAMBDA d : InRadius(d.pos, o.center, o.radiusM))
        hits == SelectSeq(near, LAMBDA d : CachePasses(d, o))
    IN  [i \in 1..Len(hits) |-> [doc |-> hits[i], distance |-> Dist(hits[i].pos, o.center)]]

\* CacheAttempt consulting the store before it returns a hit.
CacheAttemptChecksStore(p) ==
    /\ pc[p] = "cache"
    /\ IF ~cacheUp
       THEN /\ Raise(p, "CacheUnavailable")
            /\ UNCHANGED <<stores, env, op>>
       ELSE \E geo \in BagSeqs(cache) :
              LET results == CacheResults(geo, op[p])
              IN  IF results # <<>>
                  THEN /\ IF storeUp
                          THEN Return(p, [status |-> "ok", source |-> "cache", results |-> results])
                          ELSE Raise(p, "StoreUnavailable")
                       /\ UNCHANGED <<stores, env, op>>
                  ELSE /\ pc' = [pc EXCEPT ![p] = "store"]
                       /\ UNCHANGED <<stores, env, op, buf, idx, ret>>

\* The cache attempt: the geo index query, then the load-and-filter loop.
\* An unreachable Redis makes the geo query raise; nothing catches it.
CacheAttempt(p) ==
    /\ pc[p] = "cache"
    /\ IF ~cacheUp
       THEN /\ Raise(p, "CacheUnavailable")
            /\ UNCHANGED <<stores, env, op>>
       ELSE \E geo \in BagSeqs(cache) :
              LET results == CacheResults(geo, op[p])
              IN  IF results # <<>>
                  THEN /\ Return(p, [status |-> "ok", source |-> "cache", results |-> results])
                       /\ UNCHANGED <<stores, env, op>>
                  ELSE /\ pc' = [pc EXCEPT ![p] = "store"]
                       /\ UNCHANGED <<stores, env, op, buf, idx, ret>>

\* What RestaurantCache.get(doc_id) does for one id of the geo result: it
\* gives the document, gives None (the hash is gone), or raises (the hash
\* does not validate, the connection breaks).
LoadOutcomes == {"ok", "none", "raises"}

\* The documents of the geo result that the loop gets hold of: `if not doc:
\* continue` drops a None, `except Exception: continue` drops a raising load.
Loaded(geo, loads) ==
    LET pairs == [i \in 1..Len(geo) |-> [doc |-> geo[i], load |-> loads[i]]]
        kept  == SelectSeq(pairs, LAMBDA x : x.load = "ok")
    IN  [i \in 1..Len(kept) |-> kept[i].doc]

\* The call together with what Redis answered to it: the geo result and the
\* outcome of each document's load.
WithLoads(o, geo, loads) ==
    [kind |-> o.kind, api |-> o.api, use_cache |-> o.use_cache, limit |-> o.limit,
     center |-> o.center, radiusM |-> o.radiusM, cuisine |-> o.cuisine,
     min_rating |-> o.min_rating, max_price |-> o.max_price,
     geo |-> geo, loads |-> loads]

\* CacheAttemptLoading without the try around the load: a raising load
\* leaves find_nearby.
CacheAttemptLoadingUncaught(p) ==
    /\ pc[p] = "cache"
    /\ IF ~cacheUp
       THEN /\ Raise(p, "CacheUnavailable")
            /\ UNCHANGED <<stores, env, op>>
       ELSE \E geo \in BagSeqs(cache) : \E loads \in [1..Len(geo) -> LoadOutcomes] :
              LET results == CacheResults(Loaded(geo, loads), op[p])
              IN  /\ op' = [op EXCEPT ![p] = WithLoads(op[p], geo, loads)]
                  /\ IF \E i \in 1..Len(geo) : loads[i] = "raises"
                     THEN /\ Raise(p, "CacheUnavailable")
                          /\ UNCHANGED <<stores, env>>
                     ELSE IF results # <<>>
                     THEN /\ Return(p, [status |-> "ok", source |-> "cache", results |-> results])
                          /\ UNCHANGED <<stores, env>>
                     ELSE /\ pc' = [pc EXCEPT ![p] = "store"]
                          /\ UNCHANGED <<stores, env, buf, idx, ret>>

\* The cache attempt when single documents may fail to load: the geo index
\* query, then the loop that loads each document inside try/except and
\* filters the loaded ones.  CacheAttempt is the case of every load giving
\* its document.
CacheAttemptLoading(p) ==
    /\ pc[p] = "cache"
    /\ IF ~cacheUp
       THEN /\ Raise(p, "CacheUnavailable")
            /\ UNCHANGED <<stores, env, op>>
       ELSE \E geo \in BagSeqs(cache) : \E loads \in [1..Len(geo) -> LoadOutcomes] :
              LET results == CacheResults(Loaded(geo, loads), op[p])
              IN  /\ op' = [op EXCEPT ![p] = WithLoads(op[p], geo, loads)]
                  /\ IF results # <<>>
                     THEN /\ Return(p, [status |-> "ok", source |-> "cache", results |-> results])
                          /\ UNCHANGED <<stores, env>>
                     ELSE /\ pc' = [pc EXCEPT ![p] = "store"]
                          /\ UNCHANGED <<stores, env, buf, idx, ret>>

\* _db_to_cache_format: the rows as unsaved RestaurantCache objects with
\* their distance from the query centre.
StoreResults(rows, o) ==
    [i \in 1..Len(rows) |->
        [doc |-> CacheObj(rows[i]), distance |-> Dist(rows[i].pos, o.center)]]

\* StoreQuery answering from the rows even when the store is unreachable.
StoreQueryNoOutage(p) ==
    /\ pc[p] = "store"
    /\ \E rows \in Perms({ r \in Rows(db) : StoreMatches(r, op[p]) }) :
          /\ IF op[p].use_cache /\ rows # <<>>
             THEN /\ buf' = [buf EXCEPT ![p] = rows]
                  /\ pc' = [pc EXCEPT ![p] = "backfill"]
                  /\ UNCHANGED <<idx, ret>>
             ELSE Return(p, [status |-> "ok", source |-> "store",
                             results |-> StoreResults(rows, op[p])])
          /\ UNCHANGED <<stores, env, op>>

\* The PostGIS query (no ORDER BY: the rows come in any order).  With
\* nothing to cache the function converts and returns without suspending.
StoreQuery(p) ==
    /\ pc[p] = "store"
    /\ IF ~storeUp
       THEN /\ Raise(p, "StoreUnavailable")
            /\ UNCHANGED <<stores, env, op>>
       ELSE \E rows \in Perms({ r \in Rows(db) : StoreMatches(r, op[p]) }) :
              /\ IF op[p].use_cache /\ rows # <<>>
                 THEN /\ buf' = [buf EXCEPT ![p] = rows]
                      /\ pc' = [pc EXCEPT ![p] = "backfill"]
                      /\ UNCHANGED <<idx, ret>>
                 ELSE Return(p, [status |-> "ok", source |-> "store",
                                 results |-> StoreResults(rows, op[p])])
              /\ UNCHANGED <<stores, env, op>>

\* What the operation does once _cache_results has written its last row.
AfterBackfill(p) ==
    IF op[p].kind = "find"
    THEN /\ pc' = [pc EXCEPT ![p] = "format"]
         /\ UNCHANGED <<buf, ret>>
         /\ idx' = [idx EXCEPT ![p] = idx[p] + 1]
    ELSE IF op[p].kind = "warm"
    THEN Return(p, [status |-> "ok", count |-> Len(buf[p])])
    ELSE Return(p, [status |-> "success", imported |-> op[p].imported,
                    cached |-> Len(buf[p])])

\* One iteration of _cache_results: read the row's coordinates from the
\* store, build the document, await its insert.
CacheInsert(p) ==
    /\ pc[p] = "backfill"
    /\ idx[p] < Len(buf[p])
    /\ IF ~storeUp
       THEN /\ Raise(p, "StoreUnavailable")
            /\ UNCHANGED <<stores, env, op>>
       ELSE IF ~cacheUp
       THEN /\ Raise(p, "CacheUnavailable")
            /\ UNCHANGED <<stores, env, op>>
       ELSE /\ BagCardinality(cache) < MaxDocs
            /\ cache' = cache (+) SetToBag({CacheEntry(buf[p][idx[p] + 1])})
            /\ IF idx[p] + 1 < Len(buf[p])
               THEN /\ idx' = [idx EXCEPT ![p] = idx[p] + 1]
                    /\ UNCHANGED <<pc, buf, ret>>
               ELSE AfterBackfill(p)
            /\ UNCHANGED <<db, env, op>>

\* After the last insert: _db_to_cache_format (it reads every row's
\* coordinates and distance from the store) and the return to the caller.
FormatReturn(p) ==
    /\ pc[p] = "format"
    /\ IF ~storeUp
       THEN /\ Raise(p, "StoreUnavailable")
            /\ UNCHANGED <<stores, env, op>>
       ELSE /\ Return(p, [status |-> "ok", source |-> "store",
                          results |-> StoreResults(buf[p], op[p])])
            /\ UNCHANGED <<stores, env, op>>

\* The caller has taken the outcome (the endpoint has formatted and sent
\* its response); the process is free again.
Finish(p) ==
    /\ pc[p] = "done"
    /\ pc' = [pc EXCEPT ![p] = "idle"]
    /\ op' = [op EXCEPT ![p] = NoOp]
    /\ ret' = [ret EXCEPT ![p] = NoRet]
    /\ UNCHANGED <<stores, env, buf, idx>>

(* ------------------- RestaurantService.warm_cache --------------------- *)
WarmOps == [kind : {"warm"}, city : Cities]

\* WarmCache loading the rows of the city whether active or not.
WarmCacheAllRows(p, o) ==
    /\ pc[p] = "idle"
    /\ op' = [op EXCEPT ![p] = o]
    /\ IF ~storeUp
       THEN /\ Raise(p, "StoreUnavailable")
            /\ UNCHANGED <<stores, env>>
       ELSE \E rows \in Perms({ r \in Rows(db) : r.city = o.city }) :
              /\ IF rows # <<>>
                 THEN /\ buf' = [buf EXCEPT ![p] = rows]
                      /\ pc' = [pc EXCEPT ![p] = "backfill"]
                      /\ UNCHANGED <<idx, ret>>
                 ELSE Return(p, [status |-> "ok", count |-> 0])
              /\ UNCHANGED <<stores, env>>

WarmCache(p, o) ==
    /\ pc[p] = "idle"
    /\ op' = [op EXCEPT ![p] = o]
    /\ IF ~storeUp
       THEN /\ Raise(p, "StoreUnavailable")
            /\ UNCHANGED <<stores, env>>
       ELSE \E rows \in Perms({ r \in Rows(db) : r.city = o.city /\ r.is_active = TRUE }) :
              /\ IF rows # <<>>
                 THEN /\ buf' = [buf EXCEPT ![p] = rows]
                      /\ pc' = [pc EXCEPT ![p] = "backfill"]
                      /\ UNCHANGED <<idx, ret>>
                 ELSE Return(p, [status |-> "ok", count |-> 0])
              /\ UNCHANGED <<stores, env>>

(* ----------------- RestaurantService.invalidate_cache ----------------- *)
\* The body of invalidate_cache is `pass`: the call returns and nothing is
\* deleted.
InvalidateCache(p, id) ==
    /\ pc[p] = "idle"
    /\ op' = [op EXCEPT ![p] = [kind |-> "invalidate", id |-> id]]
    /\ Return(p, [status |-> "ok"])
    /\ UNCHANGED <<stores, env>>

(* ------------------- database: the Redis client ----------------------- *)
\* The clients a run may create.
MaxClients == 3

\* GetRedisClient creating a client on every call.
GetRedisClientAlwaysNew(p) ==
    /\ pc[p] = "idle"
    /\ op' = [op EXCEPT ![p] = [kind |-> "get_redis_client"]]
    /\ Len(clients) < MaxClients
    /\ clients' = Append(clients, "open")
    /\ redis_client' = <<Len(clients) + 1>>
    /\ Return(p, [status |-> "ok", client |-> Len(clients) + 1])
    /\ UNCHANGED <<stores, storeUp, cacheUp, now>>

\* get_redis_client: the function has no await, it runs in one step.  It
\* creates a client when the global is None and returns the global.
GetRedisClient(p) ==
    /\ pc[p] = "idle"
    /\ op' = [op EXCEPT ![p] = [kind |-> "get_redis_client"]]
    /\ IF redis_client = <<>>
       THEN /\ Len(clients) < MaxClients
            /\ clients' = Append(clients, "open")
            /\ redis_client' = <<Len(clients) + 1>>
            /\ Return(p, [status |-> "ok", client |-> Len(clients) + 1])
       ELSE /\ Return(p, [status |-> "ok", client |-> redis_client[1]])
            /\ UNCHANGED <<redis_client, clients>>
    /\ UNCHANGED <<stores, storeUp, cacheUp, now>>

\* close_redis up to its await: the test of the global and the call of
\* close() on the client it names.  The shutdown handler is its only
\* caller, so no other close_redis is under way.
CloseRedis(p) ==
    /\ pc[p] = "idle"
    /\ \A q \in Procs : pc[q] \notin {"closing", "closed"}
    /\ IF redis_client # <<>>
       THEN /\ op' = [op EXCEPT ![p] = [kind |-> "close_redis", client |-> redis_client[1]]]
            /\ pc' = [pc EXCEPT ![p] = "closing"]
            /\ UNCHANGED <<buf, idx, ret>>
       ELSE /\ op' = [op EXCEPT ![p] = [kind |-> "close_redis", client |-> 0]]
            /\ Return(p, [status |-> "ok"])
    /\ UNCHANGED <<stores, env>>

\* While close_redis is suspended in `await _redis_client.close()` the
\* client closes its connections.
ClientClosed(p) ==
    /\ pc[p] = "closing"
    /\ clients' = [clients EXCEPT ![op[p].client] = "closed"]
    /\ pc' = [pc EXCEPT ![p] = "closed"]
    /\ UNCHANGED <<stores, storeUp, cacheUp, now, redis_client, op, buf, idx, ret>>

\* close_redis after its await: the global is set to None.
CloseRedisDone(p) ==
    /\ pc[p] = "closed"
    /\ redis_client' = <<>>
    /\ Return(p, [status |-> "ok"])
    /\ UNCHANGED <<stores, storeUp, cacheUp, now, clients, op>>

(* ------------------------------ get_stats ----------------------------- *)
\* The cache_coverage text: f"{x:.1f}%" of cached / total * 100 as the pair
\* <<whole, tenth>>, the literal "0%" as <<0>>.  No quotient of the model's
\* counts lies halfway between two tenths.
Coverage(cached, total) ==
    IF total > 0
    THEN LET t == (2000 * cached + total) \div (2 * total)
         IN  <<t \div 10, t % 10>>
    ELSE <<0>>

\* GET /stats: two counts of the table, then the count of the documents.
GetStats(p) ==
    /\ pc[p] = "idle"
    /\ op' = [op EXCEPT ![p] = [kind |-> "stats"]]
    /\ IF ~storeUp
       THEN Raise(p, "StoreUnavailable")
       ELSE IF ~cacheUp
       THEN Raise(p, "CacheUnavailable")
       ELSE LET total_restaurants  == Len(db)
                active_restaurants == Cardinality({ r \in Rows(db) : r.is_active = TRUE })
                cached_restaurants == BagCardinality(cache)
            IN  Return(p, [status |-> "ok",
                           total_restaurants |-> total_restaurants,
                           active_restaurants |-> active_restaurants,
                           cached_restaurants |-> cached_restaurants,
                           cache_coverage |-> Coverage(cached_restaurants, total_restaurants)])
    /\ UNCHANGED <<stores, env>>

(* -------------------- OSMImporter._parse_osm_element ------------------- *)
\* An optional value is a sequence of length 0 (absent, None) or 1.
\* Elements of an Overpass response: a node carries lat and lon itself, a
\* way carries them under "center"; the cuisine tag may be absent.
RawElements ==
    [type : {"node", "way"}, id : {1},
     lat : {<<>>, <<0>>, <<6>>}, lon : {<<>>, <<0>>, <<14>>},
     center : {<<>>, << [lat |-> <<0>>, lon |-> <<14>>] >>, << [lat |-> <<6>>, lon |-> <<>>] >>},
     cuisine : {<<>>, <<"Italian">>}]

\* Python's `not x` for an optional number: None and 0 are both false.
Falsy(x) == x = <<>> \/ x[1] = 0

\* f"osm_{element['type']}_{element['id']}" for the ids of RawElements.
OsmId(type, id) == IF type = "node" THEN "osm_node_1" ELSE "osm_way_1"

\* _parse_osm_element: the parsed restaurant, or None (the empty sequence).
ParseOsmElement(e, city) ==
    LET found == e.type = "node" \/ e.center # <<>>
        lat == IF e.type = "node" THEN e.lat ELSE e.center[1].lat
        lon == IF e.type = "node" THEN e.lon ELSE e.center[1].lon
    IN  IF ~found THEN <<>>
        ELSE IF Falsy(lat) \/ Falsy(lon) THEN <<>>
        ELSE << [osm_id |-> OsmId(e.type, e.id), latitude |-> lat[1], longitude |-> lon[1],
                 city |-> city,
                 cuisine |-> IF e.cuisine = <<>> THEN "general" ELSE e.cuisine[1]] >>

\* fetch_by_bbox parses one element of the response.
ParseElement(p, e) ==
    /\ pc[p] = "idle"
    /\ op' = [op EXCEPT ![p] = [kind |-> "parse", element |-> e]]
    /\ Return(p, [status |-> "ok", parsed |-> ParseOsmElement(e, "Unknown")])
    /\ UNCHANGED <<stores, env>>

(* ------------------------ OSMImporter.save_to_db ---------------------- *)
\* save_to_db commits after every CommitEvery added rows and at the end.
CommitEvery == 100

OsmIds(rows) == { rows[i].osm_id : i \in 1..Len(rows) }

\* db.commit(): the flush fails on the unique index of osm_id when two
\* pending rows carry the same external id.
CommitFails(pending) ==
    \E i, j \in 1..Len(pending) : i # j /\ pending[i].osm_id = pending[j].osm_id

\* The loop of save_to_db.  The session does not autoflush, so the
\* existence check sees the committed rows only.
RECURSIVE SaveLoop(_, _, _, _, _)
SaveLoop(d, pending, rest, imported, city) ==
    IF rest = <<>>
    THEN IF CommitFails(pending)
         THEN [ok |-> FALSE, db |-> d, imported |-> imported]
         ELSE [ok |-> TRUE, db |-> d \o pending, imported |-> imported]
    ELSE IF Head(rest).osm_id \in OsmIds(d)
    THEN SaveLoop(d, pending, Tail(rest), imported, city)
    ELSE LET row == NewRow(Len(d) + Len(pending) + 1, Head(rest), city)
             pend == Append(pending, row)
         IN  IF (imported + 1) % CommitEvery = 0
             THEN IF CommitFails(pend)
                  THEN [ok |-> FALSE, db |-> d, imported |-> imported + 1]
                  ELSE SaveLoop(d \o pend, <<>>, Tail(rest), imported + 1, city)
             ELSE SaveLoop(d, pend, Tail(rest), imported + 1, city)

SaveToDb(d, batch, city) == SaveLoop(d, <<>>, batch, 0, city)

(* ------------------------- endpoint import_area ----------------------- *)
\* What the Overpass API can deliver: parsed elements, possibly none.
Batches == UNION { [1..n -> OsmCatalog] : n \in 0..MaxBatch }

\* How the request to the Overpass API can end: with a response, with a
\* timeout, with a connection or HTTP error, with a body that is not JSON.
Fetches ==
    { [outcome |-> "ok", elements |-> b] : b \in Batches }
      \cup { [outcome |-> o, elements |-> <<>>] : o \in {"timeout", "unreachable", "malformed"} }

\* FetchByBbox letting the timeout escape.
FetchByBboxUncaught(outcome, elements) ==
    IF outcome \in {"timeout", "malformed"}
    THEN [raised |-> TRUE, data |-> <<>>]
    ELSE IF outcome = "unreachable"
    THEN [raised |-> FALSE, data |-> <<>>]
    ELSE [raised |-> FALSE, data |-> elements]

\* fetch_by_bbox: a Timeout and any other RequestException are caught and
\* give the empty list; response.json() is outside the try.
FetchByBbox(outcome, elements) ==
    IF outcome \in {"timeout", "unreachable"}
    THEN [raised |-> FALSE, data |-> <<>>]
    ELSE IF outcome = "malformed"
    THEN [raised |-> TRUE, data |-> <<>>]
    ELSE [raised |-> FALSE, data |-> elements]

ImportArea(p, center, radiusM, outcome, elements) ==
    /\ pc[p] = "idle"
    /\ IF FetchByBbox(outcome, elements).raised
       THEN /\ op' = [op EXCEPT ![p] = [kind |-> "import", imported |-> 0, fetch |-> outcome]]
            /\ Raise(p, "IngestionError")
            /\ UNCHANGED <<stores, env>>
       ELSE IF FetchByBbox(outcome, elements).data = <<>>
       THEN /\ op' = [op EXCEPT ![p] = [kind |-> "import", imported |-> 0, fetch |-> outcome]]
            /\ Return(p, [status |-> "no_results", imported |-> 0])
            /\ UNCHANGED <<stores, env>>
       ELSE IF ~storeUp
       THEN /\ op' = [op EXCEPT ![p] = [kind |-> "import", imported |-> 0, fetch |-> outcome]]
            /\ Raise(p, "StoreUnavailable")
            /\ UNCHANGED <<stores, env>>
       ELSE LET saved == SaveToDb(db, FetchByBbox(outcome, elements).data, "Unknown")
            IN  /\ Len(saved.db) <= MaxRecords
                /\ op' = [op EXCEPT ![p] = [kind |-> "import", imported |-> saved.imported,
                                                 fetch |-> outcome]]
                /\ IF ~saved.ok
                   THEN /\ Raise(p, "IntegrityError")
                        /\ UNCHANGED <<stores, env>>
                   ELSE \E rows \in Perms({ r \in Rows(saved.db) :
                                              /\ InRadius(r.pos, center, radiusM)
                                              /\ r.is_active = TRUE }) :
                          /\ db' = saved.db
                          /\ IF rows # <<>>
                             THEN /\ buf' = [buf EXCEPT ![p] = rows]
                                  /\ pc' = [pc EXCEPT ![p] = "backfill"]
                                  /\ UNCHANGED <<idx, ret>>
                             ELSE Return(p, [status |-> "success",
                                             imported |-> saved.imported, cached |-> 0])
                          /\ UNCHANGED <<cache, env>>

(* ----------------------------- environment ---------------------------- *)
\* Another client of the database updates a row.
StoreUpdate(i, prof) ==
    /\ storeUp
    /\ i \in 1..Len(db)
    /\ db[i].rating = 0
    /\ db' = [db EXCEPT ![i].rating = prof.rating,
                        ![i].price_range = prof.price_range,
                        ![i].is_active = prof.is_active]
    /\ UNCHANGED <<cache, env, pc, op, buf, idx, ret>>

StoreToggle ==
    /\ storeUp' = ~storeUp
    /\ UNCHANGED <<stores, cacheUp, now, redis_client, clients, pc, op, buf, idx, ret>>

CacheToggle ==
    /\ cacheUp' = ~cacheUp
    /\ UNCHANGED <<stores, storeUp, now, redis_client, clients, pc, op, buf, idx, ret>>

\* Time passes: the next reading of the clock is a later instant.
Tick ==
    /\ \E t \in Instants : t > now /\ now' = t
    /\ UNCHANGED <<stores, storeUp, cacheUp, redis_client, clients, pc, op, buf, idx, ret>>

(* --------------------------- specifications --------------------------- *)
Step(p) ==
    \/ \E o \in FindOps \cup BadFindOps : StartFind(p, o)
    \/ CacheAttempt(p)
    \/ StoreQuery(p)
    \/ CacheInsert(p)
    \/ FormatReturn(p)
    \/ \E o \in WarmOps : WarmCache(p, o)
    \/ \E a \in Areas, f \in Fetches : ImportArea(p, a.center, a.radiusM, f.outcome, f.elements)
    \/ Finish(p)

Environment ==
    \/ \E i \in 1..MaxRecords, prof \in Profiles : StoreUpdate(i, prof)
    \/ StoreToggle
    \/ CacheToggle

\* Operations run one after the other.
Next ==
    \/ \E p \in Procs : (\A q \in Procs \ {p} : pc[q] = "idle") /\ Step(p)
    \/ Environment

Spec == Init /\ [][Next]_vars

(* ----------------- concurrent requests on a loaded store -------------- *)
\* Requests of the endpoint without filters.
ConcFindOps ==
    { o \in FindOps : o.api /\ o.limit = 1000 /\ o.cuisine = NoCuisine
                      /\ o.min_rating = 0 /\ o.max_price = 4 }

\* The store holds imported rows, the cache is still empty.
ConcInit ==
    /\ db \in { SaveToDb(<<>>, b, "Unknown").db : b \in { c \in Batches : SaveToDb(<<>>, c, "Unknown").ok } }
    /\ cache = EmptyBag
    /\ storeUp = TRUE
    /\ cacheUp = TRUE
    /\ pc = [p \in Procs |-> "idle"]
    /\ op = [p \in Procs |-> NoOp]
    /\ buf = [p \in Procs |-> <<>>]
    /\ idx = [p \in Procs |-> 0]
    /\ ret = [p \in Procs |-> NoRet]
    /\ now = 0
    /\ redis_client = <<1>>
    /\ clients = <<"open">>

\* The requests interleave at every point where find_nearby suspends.
ConcNext ==
    \E p \in Procs :
        \/ \E o \in ConcFindOps : StartFind(p, o)
        \/ CacheAttempt(p)
        \/ StoreQuery(p)
        \/ CacheInsert(p)
        \/ FormatReturn(p)
        \/ Finish(p)

ConcSpec == ConcInit /\ [][ConcNext]_vars

\* The coordinator's own steps are always taken; nothing says when Redis
\* completes a backfill write.
FairSpec ==
    /\ ConcSpec
    /\ \A p \in Procs : /\ WF_vars(CacheAttempt(p))
                        /\ WF_vars(StoreQuery(p))
                        /\ WF_vars(FormatReturn(p))

(* ------------------- requests while the clock runs -------------------- *)
\* Requests without filters, through the endpoint and directly.
TimedFindOps ==
    { o \in FindOps : o.limit = 1000 /\ o.cuisine = NoCuisine
                      /\ o.min_rating = 0 /\ o.max_price = 4 }

\* Requests run one after the other on a loaded store while time passes.
TimedNext ==
    \/ \E p \in Procs :
          /\ \A q \in Procs \ {p} : pc[q] = "idle"
          /\ \/ \E o \in TimedFindOps : StartFind(p, o)
             \/ CacheAttempt(p)
             \/ StoreQuery(p)
             \/ CacheInsert(p)
             \/ FormatReturn(p)
             \/ \E o \in WarmOps : WarmCache(p, o)
             \/ Finish(p)
    \/ Tick

TimedSpec == ConcInit /\ [][TimedNext]_vars

(* ------------- requests while documents fail to load ------------------ *)
\* Requests run one after the other on a loaded store; each load of a
\* cached document may give the document, None or an exception.
LoadNext ==
    \E p \in Procs :
        /\ \A q \in Procs \ {p} : pc[q] = "idle"
        /\ \/ \E o \in TimedFindOps : StartFind(p, o)
           \/ CacheAttemptLoading(p)
           \/ StoreQuery(p)
           \/ CacheInsert(p)
           \/ FormatReturn(p)
           \/ Finish(p)

LoadSpec == ConcInit /\ [][LoadNext]_vars

(* ---------------------- maintenance of the cache ---------------------- *)
\* Stores filled by imports of a city and of an area.
MaintStores ==
    { SaveToDb(SaveToDb(<<>>, a, "Roma").db, b, "Unknown").db :
        a, b \in { c \in Batches : SaveToDb(<<>>, c, "Roma").ok } }

MaintInit ==
    /\ db \in MaintStores
    /\ cache = EmptyBag
    /\ storeUp = TRUE
    /\ cacheUp = TRUE
    /\ pc = [p \in Procs |-> "idle"]
    /\ op = [p \in Procs |-> NoOp]
    /\ buf = [p \in Procs |-> <<>>]
    /\ idx = [p \in Procs |-> 0]
    /\ ret = [p \in Procs |-> NoRet]
    /\ now = 0
    /\ redis_client = <<1>>
    /\ clients = <<"open">>

\* Each process runs one maintenance operation, one operation after the
\* other, while rows are updated and Redis comes and goes.
MaintNext ==
    \/ \E p \in Procs :
          /\ \A q \in Procs \ {p} : pc[q] \in {"idle", "done"}
          /\ \/ \E o \in WarmOps : WarmCache(p, o)
             \/ CacheInsert(p)
             \/ \E i \in 1..MaxRecords : InvalidateCache(p, i)
    \/ \E i \in 1..MaxRecords, prof \in Profiles : StoreUpdate(i, prof)
    \/ CacheToggle

MaintSpec == MaintInit /\ [][MaintNext]_vars

(* ---------------------- statistics of a warmed cache ------------------ *)
\* Warm runs and calls of /stats, one after the other, while PostgreSQL
\* and Redis come and go.
StatsNext ==
    \/ \E p \in Procs :
          /\ \A q \in Procs \ {p} : pc[q] = "idle"
          /\ \/ \E o \in WarmOps : WarmCache(p, o)
             \/ CacheInsert(p)
             \/ GetStats(p)
             \/ Finish(p)
    \/ StoreToggle
    \/ CacheToggle

StatsSpec == MaintInit /\ [][StatsNext]_vars

(* ---------------------- life of the Redis client ---------------------- *)
\* The module database has just been imported: no client yet.
ClientInit ==
    /\ db = <<>>
    /\ cache = EmptyBag
    /\ storeUp = TRUE
    /\ cacheUp = TRUE
    /\ pc = [p \in Procs |-> "idle"]
    /\ op = [p \in Procs |-> NoOp]
    /\ buf = [p \in Procs |-> <<>>]
    /\ idx = [p \in Procs |-> 0]
    /\ ret = [p \in Procs |-> NoRet]
    /\ now = 0
    /\ redis_client = <<>>
    /\ clients = <<>>

\* Startups, requests and shutdowns ask for the client and close it; the
\* coroutines interleave at close_redis's await.
ClientNext ==
    \E p \in Procs :
        \/ GetRedisClient(p)
        \/ CloseRedis(p)
        \/ ClientClosed(p)
        \/ CloseRedisDone(p)
        \/ Finish(p)

ClientSpec == ClientInit /\ [][ClientNext]_vars

(* ------------------------ parsing of OSM elements --------------------- *)
ParseNext ==
    \E p \in Procs :
        /\ \A q \in Procs \ {p} : pc[q] = "idle"
        /\ \/ \E e \in RawElements : ParseElement(p, e)
           \/ Finish(p)

ParseSpec == Init /\ [][ParseNext]_vars

(* ============================== properties ============================ *)
IsFind(p) == op[p].kind = "find"
Failed(p, err) == ret[p].status = "error" /\ ret[p].error = err
FailsWith(p, err) ==
    pc'[p] = "done" /\ ret'[p].status = "error" /\ ret'[p].error = err

\* Number of cached documents that carry source id `id`.
DocsFor(id) == CopiesIn(id, BagOfAll(LAMBDA e : e.db_id, cache))

\* Number of documents of bag c whose city is `city`.
CityCount(c, city) == CopiesIn(city, BagOfAll(LAMBDA e : e.city, c))

\* C1: a cache attempt made while Redis is unreachable and PostgreSQL is
\* reachable does not end the call: find_nearby goes on to the store query.
C1_CacheOutageFallsBack ==
    [][\A p \in Procs :
          (IsFind(p) /\ pc[p] = "cache" /\ ~cacheUp /\ storeUp /\ pc'[p] # pc[p])
              => pc'[p] = "store"]_vars

\* C2 as claimed: with PostgreSQL unreachable (and Redis reachable) every
\* step that ends a find_nearby call ends it with StoreUnavailable, whatever
\* the cache holds and whatever use_cache is.
C2_Original ==
    [][\A p \in Procs :
          (IsFind(p) /\ ~storeUp /\ cacheUp /\ pc[p] # "done" /\ pc'[p] = "done")
              => FailsWith(p, "StoreUnavailable")]_vars

\* C2 amended: whenever find_nearby takes a step that consults PostgreSQL
\* (the store query, a backfill iteration, the final conversion) while it
\* is unreachable, that step ends the call with StoreUnavailable.
C2_StoreOutageFailsQuery ==
    [][\A p \in Procs :
          (IsFind(p) /\ ~storeUp /\ pc[p] \in {"store", "backfill", "format"}
                     /\ <<pc[p], idx[p]>> # <<pc'[p], idx'[p]>>)
              => FailsWith(p, "StoreUnavailable")]_vars

\* C2 witness: a call with use_cache=true missed a populated cache and
\* failed at the store query.
C2_Witness ==
    \E p \in Procs :
        /\ IsFind(p) /\ op[p].use_cache /\ pc[p] = "done"
        /\ Failed(p, "StoreUnavailable") /\ ret[p].at = "store"
        /\ cache # EmptyBag

\* C3: the cache never holds two documents for the same source id.
C3_OneEntryPerSourceId ==
    \A i \in 1..Len(db) : DocsFor(i) <= 1

\* C4: a warm_cache write for a row whose document is already cached (as
\* on a second run over an unchanged store) does not change the number of
\* cached documents of that city.
C4_WarmIdempotent ==
    [][\A p \in Procs :
          (/\ op[p].kind = "warm" /\ pc[p] = "backfill" /\ cache' # cache
           /\ BagIn(CacheEntry(buf[p][idx[p] + 1]), cache))
              => CityCount(cache', op[p].city) = CityCount(cache, op[p].city)]_vars

\* C5: when two concurrent calls have both missed the cache and both
\* finished backfilling the same row, the cache holds exactly one document
\* for that source id.
C5_ConcurrentBackfillOneEntry ==
    \A p, q \in Procs :
        (/\ p # q /\ IsFind(p) /\ IsFind(q)
         /\ pc[p] = "format" /\ pc[q] = "format")
            => \A r \in Rows(buf[p]) \cap Rows(buf[q]) : DocsFor(r.id) = 1

\* C6: no find_nearby call ends with the error of a failed backfill write.
C6_BackfillFailureAbsorbed ==
    \A p \in Procs :
        ~(IsFind(p) /\ pc[p] = "done" /\ Failed(p, "CacheUnavailable")
                    /\ ret[p].at = "backfill")

\* C7: a call that has its store rows and starts the backfill returns
\* whether or not the backfill writes ever complete.
C7_ReturnDoesNotWaitForBackfill ==
    \A p \in Procs :
        (IsFind(p) /\ pc[p] = "backfill") ~> (pc[p] = "done")

\* C8: the response is in ascending distance order, and results at the
\* same distance are in ascending source id order.
C8_SortedTiesById ==
    \A p \in Procs :
        (IsFind(p) /\ op[p].api /\ pc[p] = "done" /\ ret[p].status = "ok")
            => \A i, j \in 1..Len(Response(p)) :
                  i < j => \/ Response(p)[i].distance_meters < Response(p)[j].distance_meters
                           \/ /\ Response(p)[i].distance_meters = Response(p)[j].distance_meters
                              /\ Response(p)[i].id <= Response(p)[j].id

\* The distances listed in a response.
Distances(resp) == [i \in 1..Len(resp) |-> resp[i].distance_meters]

\* C9: the response lists the `limit` nearest of the qualifying records:
\* its distances are the first `limit` distances of all results in
\* ascending order.
C9_TruncateAfterSort ==
    \A p \in Procs :
        (IsFind(p) /\ op[p].api /\ pc[p] = "done" /\ ret[p].status = "ok")
            => Distances(Response(p)) =
                 Take(Distances(Respond(ret[p].results, Len(ret[p].results))), op[p].limit)

\* C10: every returned document passes the filters of the call: its rating
\* is at least min_rating, its price_range at most max_price, its is_active
\* flag is set and, with a cuisine filter, its cuisine equals the filter
\* ignoring case.
C10_ResultsPassFilters ==
    \A p \in Procs :
        (IsFind(p) /\ pc[p] = "done" /\ ret[p].status = "ok")
            => \A i \in 1..Len(ret[p].results) :
                  LET doc == ret[p].results[i].doc
                  IN  /\ doc.rating >= op[p].min_rating
                      /\ doc.price_range <= op[p].max_price
                      /\ doc.is_active
                      /\ (op[p].cuisine # NoCuisine
                            => Lower(doc.cuisine) = Lower(op[p].cuisine))

\* C10 witness: a call with min_rating 4.5 returned a result while a row
\* rated below 4.5 lies within its radius.
C10_Witness ==
    \E p \in Procs :
        /\ IsFind(p) /\ pc[p] = "done" /\ ret[p].status = "ok"
        /\ op[p].min_rating = 45 /\ ret[p].results # <<>>
        /\ \E r \in Rows(db) :
              /\ InRadius(r.pos, op[p].center, op[p].radiusM)
              /\ r.is_active /\ r.rating < 45

\* The displayable fields of a response element that do not depend on the
\* query or the time.
Displayable(e) ==
    [id |-> e.id, cuisine |-> e.cuisine, rating |-> e.rating, price_range |-> e.price_range]

\* The source ids of a result list.
Ids(results) == { results[i].doc.db_id : i \in 1..Len(results) }

\* C11: a store query with a cuisine filter returns every active in-radius
\* row that passes the rating and price filters and whose cuisine equals
\* the filter ignoring case.
C11_CuisineIgnoresCase ==
    [][\A p \in Procs :
          (/\ IsFind(p) /\ op[p].cuisine # NoCuisine
           /\ pc[p] = "store" /\ pc'[p] = "done" /\ ret'[p].status = "ok")
              => \A r \in Rows(db) :
                    (/\ InRadius(r.pos, op[p].center, op[p].radiusM)
                     /\ r.is_active /\ r.rating >= op[p].min_rating
                     /\ r.price_range <= op[p].max_price
                     /\ Lower(r.cuisine) = Lower(op[p].cuisine))
                        => r.id \in Ids(ret'[p].results)]_vars

\* C12: every result of a find_nearby call, from the cache or from the
\* store, lies within the radius: its distance is at most radius_km * 1000
\* metres.
C12_ResultsWithinRadius ==
    \A p \in Procs :
        (IsFind(p) /\ pc[p] = "done" /\ ret[p].status = "ok")
            => \A i \in 1..Len(ret[p].results) :
                  /\ ret[p].results[i].distance <= op[p].radiusM * 10
                  /\ Dist(ret[p].results[i].doc.pos, op[p].center) <= op[p].radiusM * 10

\* C12 witness: a cache hit returned results while the cache also holds a
\* document outside the radius of the call.
C12_Witness ==
    \E p \in Procs :
        /\ IsFind(p) /\ pc[p] = "done" /\ ret[p].status = "ok"
        /\ ret[p].source = "cache" /\ ret[p].results # <<>>
        /\ \E d \in BagToSet(cache) : ~InRadius(d.pos, op[p].center, op[p].radiusM)

\* C13: once a call with use_cache=true has missed the cache and returned
\* a non-empty store-sourced result, the same call made again is a cache
\* hit with the same records, each reported with cache_age_seconds > 0.
C13_SecondCallIsAgedHit ==
    \A p \in Procs :
        (/\ IsFind(p) /\ pc[p] = "done" /\ ret[p].status = "ok"
         /\ ret[p].source = "store" /\ op[p].use_cache /\ ret[p].results # <<>>)
            => \A geo \in BagSeqs(cache) :
                  LET hits == CacheResults(geo, op[p])
                  IN  /\ hits # <<>>
                      /\ Ids(hits) = Ids(ret[p].results)
                      /\ \A i \in 1..Len(hits) : Format(hits[i]).cache_age_seconds > 0

\* C14: every store-sourced result is reported with cache_age_seconds = 0.
C14_StoreSourcedAgeZero ==
    \A p \in Procs :
        (/\ IsFind(p) /\ op[p].api /\ pc[p] = "done" /\ ret[p].status = "ok"
         /\ ret[p].source = "store")
            => \A i \in 1..Len(Response(p)) : Response(p)[i].cache_age_seconds = 0

\* C15 as claimed: whatever happened to the row since it was cached, a
\* cache hit shows the displayable fields a store fallback would show for
\* the row with the same source id.
C15_Original ==
    \A p \in Procs :
        (IsFind(p) /\ pc[p] = "done" /\ ret[p].status = "ok" /\ ret[p].source = "cache")
            => \A i \in 1..Len(ret[p].results) :
                  LET hit == ret[p].results[i]
                      fallback == [doc |-> CacheObj(db[hit.doc.db_id]), distance |-> hit.distance]
                  IN  Displayable(Format(hit)) = Displayable(Format(fallback))

\* C15 amended: when a call has read rows from the store, cached them and
\* returned them store-sourced, a cache hit of the same call shows, for each
\* of these records, the displayable fields the store-sourced result shows.
C15_HitEqualsFallback ==
    \A p \in Procs :
        (/\ IsFind(p) /\ pc[p] = "done" /\ ret[p].status = "ok"
         /\ ret[p].source = "store" /\ op[p].use_cache)
            => \A geo \in BagSeqs(cache) :
                  LET hits == CacheResults(geo, op[p])
                  IN  \A i \in 1..Len(ret[p].results), j \in 1..Len(hits) :
                         hits[j].doc.db_id = ret[p].results[i].doc.db_id
                            => Displayable(Format(hits[j])) = Displayable(Format(ret[p].results[i]))

\* C15 witness: a store-sourced result with a rating and a price other
\* than the defaults has been returned and its record is in the cache.
C15_Witness ==
    \E p \in Procs :
        /\ IsFind(p) /\ pc[p] = "done" /\ ret[p].status = "ok"
        /\ ret[p].source = "store" /\ op[p].use_cache
        /\ \E i \in 1..Len(ret[p].results) :
              /\ ret[p].results[i].doc.rating = 45
              /\ ret[p].results[i].doc.price_range = 3
              /\ \E d \in BagToSet(cache) :
                    /\ d.db_id = ret[p].results[i].doc.db_id
                    /\ InRadius(d.pos, op[p].center, op[p].radiusM)
                    /\ CachePasses(d, op[p])

\* The searchable attributes of a row or of a cached document.
Searchable(x) ==
    [pos |-> x.pos, city |-> x.city, cuisine |-> x.cuisine,
     price_range |-> x.price_range, rating |-> x.rating, is_active |-> x.is_active]

\* C16: the document a backfill write adds to the cache carries the
\* searchable attributes (location, city, cuisine, price_range, rating,
\* active flag) of the row it was built from.
C16_RoundTrip ==
    [][\A p \in Procs :
          (pc[p] = "backfill" /\ cache' # cache)
              => \E d \in BagToSet(cache') :
                    /\ cache' = cache (+) SetToBag({d})
                    /\ d.db_id = buf[p][idx[p] + 1].id
                    /\ Searchable(d) = Searchable(buf[p][idx[p] + 1])]_vars

\* C16 witness: the cache holds the document of a row that was updated in
\* the store before it was cached.
C16_Witness ==
    \E d \in BagToSet(cache) :
        /\ d.rating = 45 /\ d.price_range = 3 /\ d.cuisine = "Italian"
        /\ d.db_id \in 1..Len(db) /\ Searchable(d) = Searchable(db[d.db_id])

\* C17: a find_nearby call whose centre is out of range or whose radius is
\* not positive fails with InvalidArgument before it reaches the cache
\* attempt or the store query.
C17_InvalidArgsRejected ==
    \A p \in Procs :
        (IsFind(p) /\ ~ValidArgs(op[p]))
            => pc[p] = "done" /\ Failed(p, "InvalidArgument")

\* C18: save_to_db never raises: no import ends with the IntegrityError of
\* a duplicate external id.
C18_BulkInsertNeverRaises ==
    \A p \in Procs :
        ~(op[p].kind = "import" /\ pc[p] = "done" /\ Failed(p, "IntegrityError"))

\* C19: an import whose fetch timed out or could not reach the ingestion
\* source answers with imported = 0 and no error, and changes neither the
\* store nor the cache.
C19_IngestionFailureImportsNothing ==
    [][\A p \in Procs :
          (/\ pc[p] = "idle" /\ op'[p].kind = "import"
           /\ op'[p].fetch \in {"timeout", "unreachable"})
              => /\ pc'[p] = "done"
                 /\ ret'[p] = [status |-> "no_results", imported |-> 0]
                 /\ db' = db /\ cache' = cache]_vars

\* C19 witness: an import over a filled store and a filled cache ended
\* after its fetch timed out.
C19_Witness ==
    \E p \in Procs :
        /\ op[p].kind = "import" /\ op[p].fetch = "timeout" /\ pc[p] = "done"
        /\ db # <<>> /\ cache # EmptyBag

\* C20: a cached document is stale exactly when its age exceeds 3600
\* seconds; the passing of time leaves the cache as it is; and a cache
\* attempt returns every in-radius document that passes the filters, stale
\* or not, as a cache hit.
C20_StaleStillServed ==
    [][/\ \A d \in BagToSet(cache) :
             IsStale(d, MaxAgeSeconds) <=> (now - d.cached_at > 360000)
       /\ (now' # now => cache' = cache)
       /\ \A p \in Procs :
             (IsFind(p) /\ pc[p] = "cache" /\ pc'[p] # "cache")
                => \A d \in BagToSet(cache) :
                      (/\ IsStale(d, MaxAgeSeconds)
                       /\ InRadius(d.pos, op[p].center, op[p].radiusM)
                       /\ CachePasses(d, op[p]))
                          => /\ pc'[p] = "done" /\ ret'[p].status = "ok"
                             /\ ret'[p].source = "cache"
                             /\ d \in { ret'[p].results[i].doc : i \in 1..Len(ret'[p].results) }
                             /\ cache' = cache]_vars

\* C20 witness: a cache hit has returned a stale document, and the cache
\* also holds a document whose age is exactly 3600 seconds.
C20_Witness ==
    \E p \in Procs :
        /\ IsFind(p) /\ pc[p] = "done" /\ ret[p].status = "ok" /\ ret[p].source = "cache"
        /\ \E i \in 1..Len(ret[p].results) : IsStale(ret[p].results[i].doc, MaxAgeSeconds)
        /\ \E d \in BagToSet(cache) : CacheAge(d) = 360000

\* The rows warm_cache is to process: the active rows of the city.
WarmRows(d, city) == { r \in Rows(d) : r.city = city /\ r.is_active }

\* The number of documents of bag c that carry source id `id`.
DocsIn(c, id) == CopiesIn(id, BagOfAll(LAMBDA e : e.db_id, c))

\* C21: warm_cache(city) loads exactly the active rows of the city, every
\* document it writes is built from one of these rows, and the count it
\* returns is the number of rows loaded, cached before or not.
C21_WarmProcessesActiveCityRows ==
    [][\A p \in Procs :
          /\ (pc[p] = "idle" /\ op'[p].kind = "warm" /\ storeUp)
                => IF WarmRows(db, op'[p].city) = {}
                   THEN /\ pc'[p] = "done" /\ cache' = cache
                        /\ ret'[p] = [status |-> "ok", count |-> 0]
                   ELSE /\ pc'[p] = "backfill" /\ cache' = cache
                        /\ Rows(buf'[p]) = WarmRows(db, op'[p].city)
                        /\ Len(buf'[p]) = Cardinality(WarmRows(db, op'[p].city))
          /\ (op[p].kind = "warm" /\ pc[p] = "backfill" /\ cache' # cache)
                => \E d \in BagToSet(cache') :
                      /\ cache' = cache (+) SetToBag({d})
                      /\ d.db_id = buf[p][idx[p] + 1].id
                      /\ d.city = op[p].city
                      /\ buf[p][idx[p] + 1].is_active
          /\ (/\ op[p].kind = "warm" /\ pc[p] = "backfill"
              /\ pc'[p] = "done" /\ ret'[p].status = "ok")
                => ret'[p].count = Len(buf[p])]_vars

\* C21 witness: a warm_cache run has returned a count of at least 1 while
\* the store holds an uncached row that is inactive or of another city, and
\* a row of the city has been cached by more than one run.
C21_Witness ==
    \E p \in Procs :
        /\ op[p].kind = "warm" /\ pc[p] = "done" /\ ret[p].status = "ok"
        /\ ret[p].count >= 1
        /\ \E r \in Rows(db) : (r.city # op[p].city \/ ~r.is_active) /\ DocsFor(r.id) = 0
        /\ \E r \in Rows(db) : r.city = op[p].city /\ DocsFor(r.id) >= 2

\* C22: when invalidate_cache(restaurant_id) returns, the cache holds no
\* document for that source id.
C22_InvalidateRemovesEntry ==
    [][\A p \in Procs :
          (pc[p] = "idle" /\ op'[p].kind = "invalidate")
              => DocsIn(cache', op'[p].id) = 0]_vars

\* C23: every cached document carries the source id of a row of the store
\* and that row's external id.
C23_EntriesReferenceStoreRows ==
    \A d \in BagToSet(cache) :
        /\ d.db_id \in 1..Len(db)
        /\ db[d.db_id].id = d.db_id
        /\ db[d.db_id].osm_id = d.osm_id

\* C23 witness: the cache holds documents of two different rows.
C23_Witness ==
    \E d, e \in BagToSet(cache) : d.db_id # e.db_id /\ Len(db) = 2

\* The element carries no latitude or no longitude.
CoordsMissing(e) ==
    IF e.type = "node"
    THEN e.lat = <<>> \/ e.lon = <<>>
    ELSE e.center = <<>> \/ e.center[1].lat = <<>> \/ e.center[1].lon = <<>>

\* C24: _parse_osm_element drops an element exactly when a coordinate is
\* missing; an element with both coordinates, 0 included, gives a record.
C24_RejectedIffCoordsMissing ==
    \A p \in Procs :
        (op[p].kind = "parse" /\ pc[p] = "done")
            => ((ret[p].parsed = <<>>) <=> CoordsMissing(op[p].element))

\* C25: a find_nearby call with valid arguments ends as a cache hit, as a
\* store-sourced return or with the failure of the store; never with
\* another failure.
C25_ThreeOutcomes ==
    \A p \in Procs :
        (IsFind(p) /\ ValidArgs(op[p]) /\ pc[p] = "done")
            => \/ ret[p].status = "ok" /\ ret[p].source \in {"cache", "store"}
               \/ Failed(p, "StoreUnavailable")

\* C26: when a warm_cache run ends successfully after an earlier run for
\* the same city was interrupted in its cache writes, the cache holds one
\* document for each active row of the city.
C26_WarmResumable ==
    [][\A p, q \in Procs :
          (/\ p # q
           /\ op[q].kind = "warm" /\ pc[q] = "done"
           /\ Failed(q, "CacheUnavailable") /\ ret[q].at = "backfill"
           /\ op[p].kind = "warm" /\ op[p].city = op[q].city
           /\ pc[p] = "backfill" /\ pc'[p] = "done" /\ ret'[p].status = "ok")
              => \A r \in WarmRows(db, op[p].city) : DocsIn(cache', r.id) = 1]_vars

\* C27: with the store unchanged, a find_nearby call returns the source
\* ids the store query gives for its arguments, whether it was served from
\* the cache or from the store.
C27_SameIdsWithAndWithoutCache ==
    \A p \in Procs :
        (IsFind(p) /\ pc[p] = "done" /\ ret[p].status = "ok")
            => Ids(ret[p].results) = { r.id : r \in { x \in Rows(db) : StoreMatches(x, op[p]) } }

\* C28: the result of a find_nearby call lists no source id twice.
C28_NoDuplicateIds ==
    \A p \in Procs :
        (IsFind(p) /\ pc[p] = "done" /\ ret[p].status = "ok")
            => \A i, j \in 1..Len(ret[p].results) :
                  i # j => ret[p].results[i].doc.db_id # ret[p].results[j].doc.db_id

\* C29: a call with use_cache=false goes straight to the store query and
\* ends there: with the store's rows when PostgreSQL is reachable, whatever
\* the state of Redis, and with the cache left as it was.
C29_NoCacheWhenDisabled ==
    [][\A p \in Procs :
          /\ (pc[p] = "idle" /\ op'[p].kind = "find" /\ ~op'[p].use_cache)
                => pc'[p] = "store" /\ cache' = cache
          /\ (IsFind(p) /\ ~op[p].use_cache /\ pc[p] # pc'[p])
                => /\ pc[p] = "store" \/ pc[p] = "done"
                   /\ cache' = cache
                   /\ pc[p] = "store"
                        => /\ pc'[p] = "done"
                           /\ IF storeUp
                              THEN /\ ret'[p].status = "ok" /\ ret'[p].source = "store"
                                   /\ Ids(ret'[p].results) =
                                        { r.id : r \in { x \in Rows(db) : StoreMatches(x, op[p]) } }
                              ELSE FailsWith(p, "StoreUnavailable")]_vars

\* C29 witness: a call with use_cache=false has returned rows while Redis
\* is unreachable and the cache holds documents.
C29_Witness ==
    \E p \in Procs :
        /\ IsFind(p) /\ ~op[p].use_cache /\ pc[p] = "done" /\ ret[p].status = "ok"
        /\ ret[p].results # <<>> /\ ~cacheUp /\ cache # EmptyBag

\* C30: a cache attempt that finds a document passing the filters returns
\* it as a hit, whether PostgreSQL is reachable or not, and changes neither
\* the cache nor the store; a store query that finds no row returns the
\* empty result and changes neither.
C30_HitAndEmptyMissWriteNothing ==
    [][\A p \in Procs :
          /\ (/\ IsFind(p) /\ pc[p] = "cache" /\ cacheUp /\ pc'[p] # "cache"
              /\ \E d \in BagToSet(cache) :
                    InRadius(d.pos, op[p].center, op[p].radiusM) /\ CachePasses(d, op[p]))
                => /\ pc'[p] = "done" /\ ret'[p].status = "ok"
                   /\ ret'[p].source = "cache" /\ ret'[p].results # <<>>
                   /\ db' = db /\ cache' = cache
          /\ (/\ IsFind(p) /\ op[p].use_cache /\ pc[p] = "store" /\ storeUp
              /\ pc'[p] # "store"
              /\ { x \in Rows(db) : StoreMatches(x, op[p]) } = {})
                => /\ pc'[p] = "done" /\ ret'[p].status = "ok"
                   /\ ret'[p].results = <<>>
                   /\ db' = db /\ cache' = cache]_vars

\* C30 witness: a cache hit has been returned while PostgreSQL is
\* unreachable.
C30_Witness ==
    \E p \in Procs :
        /\ IsFind(p) /\ pc[p] = "done" /\ ret[p].status = "ok"
        /\ ret[p].source = "cache" /\ ret[p].results # <<>> /\ ~storeUp

\* The number of positions of sequence s that satisfy Test.
CountIn(s, Test(_)) == Cardinality({ i \in 1..Len(s) : Test(s[i]) })

\* C31: a cache attempt that reached Redis never ends the call with an
\* error, whatever the loads of the single documents give: the documents
\* that load, lie in the radius and pass the filters are returned as a hit,
\* each as often as it loaded, and when there is none the call goes on to
\* the store query; the cache and the store are left as they were.
C31_UnloadableDocsAreSkipped ==
    [][\A p \in Procs :
          (IsFind(p) /\ pc[p] = "cache" /\ cacheUp /\ pc'[p] # "cache")
              => LET g == op'[p].geo
                     l == op'[p].loads
                     Valid(i) == /\ l[i] = "ok"
                                 /\ InRadius(g[i].pos, op[p].center, op[p].radiusM)
                                 /\ CachePasses(g[i], op[p])
                 IN  /\ Len(g) = BagCardinality(cache) /\ Len(l) = Len(g)
                     /\ \A d \in BagToSet(cache) : CountIn(g, LAMBDA x : x = d) = CopiesIn(d, cache)
                     /\ db' = db /\ cache' = cache
                     /\ IF \E i \in 1..Len(g) : Valid(i)
                        THEN /\ pc'[p] = "done" /\ ret'[p].status = "ok"
                             /\ ret'[p].source = "cache"
                             /\ \A d \in BagToSet(cache) :
                                   CountIn(ret'[p].results, LAMBDA r : r.doc = d)
                                      = Cardinality({ i \in 1..Len(g) : g[i] = d /\ Valid(i) })
                             /\ \A i \in 1..Len(ret'[p].results) :
                                   BagIn(ret'[p].results[i].doc, cache)
                        ELSE pc'[p] = "store" /\ ret'[p] = ret[p]]_vars

\* C31 witness: a call has returned a cache hit from a geo result of which
\* one document loaded as None and another raised on loading.
C31_Witness ==
    \E p \in Procs :
        /\ IsFind(p) /\ pc[p] = "done" /\ ret[p].status = "ok" /\ ret[p].source = "cache"
        /\ "geo" \in DOMAIN op[p]
        /\ \E i, j \in 1..Len(op[p].loads) : op[p].loads[i] = "none" /\ op[p].loads[j] = "raises"
        /\ Len(ret[p].results) < Len(op[p].geo)
        /\ ret[p].results # <<>>

\* C32: /stats never reports more cached restaurants than restaurants in
\* the store, so the coverage it reports is at most 100.0%; for an empty
\* store it reports the coverage 0%.
C32_CoverageAtMostHundred ==
    \A p \in Procs :
        (op[p].kind = "stats" /\ pc[p] = "done" /\ ret[p].status = "ok")
            => /\ ret[p].cached_restaurants <= ret[p].total_restaurants
               /\ ret[p].cache_coverage[1] < 100 \/ ret[p].cache_coverage = <<100, 0>>
               /\ ret[p].total_restaurants = 0 => ret[p].cache_coverage = <<0>>

\* The clients of cl that are open.
OpenClients(cl) == { i \in 1..Len(cl) : cl[i] = "open" }

\* A close_redis call is under way.
Closing == \E p \in Procs : pc[p] \in {"closing", "closed"}

\* C33: at most one client is open at any time; a get_redis_client call
\* returns the client the global names and creates one only when the
\* global is None, the new client being a fresh open one; the global
\* changes only by such a creation and by close_redis, which leaves it
\* None with its client closed; outside close_redis the global names an
\* open client.
C33_ClientIsSingleton ==
    [][/\ Cardinality(OpenClients(clients')) <= 1
       /\ (~Closing' /\ redis_client' # <<>>) => redis_client'[1] \in OpenClients(clients')
       /\ redis_client' # redis_client => (redis_client = <<>> \/ redis_client' = <<>>)
       /\ \A p \in Procs :
             /\ (pc[p] = "idle" /\ op'[p].kind = "get_redis_client")
                   => /\ pc'[p] = "done" /\ ret'[p].status = "ok"
                      /\ redis_client' = <<ret'[p].client>>
                      /\ IF redis_client # <<>>
                         THEN ret'[p].client = redis_client[1] /\ clients' = clients
                         ELSE /\ ret'[p].client \notin 1..Len(clients)
                              /\ ret'[p].client \in OpenClients(clients')
                              /\ \A i \in 1..Len(clients) : clients'[i] = clients[i]
             /\ (op[p].kind = "close_redis" /\ pc[p] # "done" /\ pc'[p] = "done")
                   => /\ redis_client' = <<>>
                      /\ ret'[p].status = "ok"
                      /\ op[p].client # 0 => clients'[op[p].client] = "closed"]_vars

\* C33 witness: after a close_redis that closed the first client, a call
\* of get_redis_client has created and returned a second one, and a later
\* call has returned that same client.
C33_Witness ==
    /\ Len(clients) = 2 /\ clients[1] = "closed" /\ clients[2] = "open"
    /\ redis_client = <<2>>
    /\ \A p \in Procs :
          op[p].kind = "get_redis_client" /\ pc[p] = "done" /\ ret[p].client = 2

====
